---- MODULE Spec2Model ----
(***************************************************************************)
(* A model of the Telegram Bot API client for RingoJS (lib/telegram.js).   *)
(*                                                                         *)
(* Every operation of the client is a synchronous call: it validates its   *)
(* parameters, builds a payload, issues at most one HTTPS POST and unwraps *)
(* the response envelope.  One action models one operation call from entry *)
(* to return or throw; the HTTP exchange is an input of the call.          *)
(***************************************************************************)
EXTENDS Integers, Sequences, FiniteSets, TLC

VARIABLES
    streams,      \* the io.Stream objects that exist: [closed, text, origin]
    descriptors,  \* the MultipartStream objects constructed: [name, stream]
    call,         \* the last call: [op, args]
    requests,     \* the HTTP requests the last call handed to request()
    exchange,     \* what request() gave back to the last call
    outcome,      \* how the last call ended: a returned value or a thrown error
    closeCalls,   \* the streams on which the last call invoked close()
    closeLog,     \* the close() invocations of the last call, one after the other
    callerOptions,\* the options object of the last call as the call left it
    offsetTxt,    \* the file offset.txt of the tests: [exists, text]
    offset,       \* the variable offset of the test module
    pc,           \* where the run of the test is
    batch,        \* the updates that the poll of the run returned
    delivered,    \* the update ids that polls have returned so far
    confirmed     \* the update ids of the batches after which the offset was written

\* the state of the calls on the client, and the state of the test runs
clientVars == <<streams, descriptors, call, requests, exchange, outcome, closeCalls, closeLog, callerOptions>>
testVars == <<offsetTxt, offset, pc, batch, delivered, confirmed>>
vars == <<clientVars, testVars>>

(***************************************************************************)
(* Bounds of the model.                                                    *)
(***************************************************************************)
MaxDescriptors == 2
MaxCallerStreams == 1
MaxUpdates == 3
MaxUpdateId == 3

(***************************************************************************)
(* JavaScript values.  A value is a record [t, v]: t is the type tag and v *)
(* a number: the length of a string, the value of an integer, the index of *)
(* a MultipartStream in descriptors.                                       *)
(***************************************************************************)
Null == [t |-> "null", v |-> 0]
Undefined == [t |-> "undefined", v |-> 0]
True == [t |-> "boolean", v |-> 1]
False == [t |-> "boolean", v |-> 0]
Str(n) == [t |-> "string", v |-> n]
Num(n) == [t |-> "number", v |-> n]
Fun == [t |-> "function", v |-> 0]
MS(i) == [t |-> "MultipartStream", v |-> i]

\* x == null
IsNullish(x) == x = Null \/ x = Undefined

\* obj[key]
Get(obj, key) == IF key \in DOMAIN obj THEN obj[key] ELSE Undefined

\* an object literal without properties
EmptyObject == [k \in {} |-> Undefined]

(***************************************************************************)
(* const baseURI = "https://api.telegram.org/bot" + token                  *)
(***************************************************************************)
TOKEN == "TOKEN"

\* mutant: the token is left out
baseURIWithoutToken == "https://api.telegram.org/bot"

baseURI == "https://api.telegram.org/bot" \o TOKEN

(***************************************************************************)
(* How a call ends.                                                        *)
(***************************************************************************)
Return(value) == [kind |-> "return", value |-> value]
Throw(error) == [kind |-> "throw", error |-> error]

\* new Error("Insufficient parameters for " + path)
InsufficientParameters(path) == [type |-> "ValidationError", path |-> path]

(***************************************************************************)
(* Response bodies.  A body is text; the model keeps of it what            *)
(* JSON.parse makes of it: whether it is JSON at all, whether the JSON is  *)
(* an object, and the object's fields.                                     *)
(***************************************************************************)
NotJson == [json |-> FALSE]
JsonNull == [json |-> TRUE, object |-> FALSE]
JsonObject(fields) == [json |-> TRUE, object |-> TRUE, fields |-> fields]

OkEnvelope == JsonObject([ok |-> True, result |-> Str(7)])
OkNoResult == JsonObject([ok |-> True])
ErrorEnvelope == JsonObject([ok |-> False, error_code |-> Num(400), description |-> Str(11)])
TruthyOkEnvelope == JsonObject([ok |-> Str(4), result |-> Str(7)])

Bodies == {NotJson, JsonNull, OkEnvelope, OkNoResult, ErrorEnvelope, TruthyOkEnvelope}
Statuses == {200, 404}

\* what request() does: it gives back an exchange, or raises (no connection)
Raised == [raised |-> TRUE]
Exchanges == {Raised} \cup {[raised |-> FALSE, status |-> s, content |-> c] : s \in Statuses, c \in Bodies}
NoExchange == [none |-> TRUE]

\* JSON.parse(text): the parsed value, or a SyntaxError
JSONparse(text) ==
    IF ~text.json THEN Throw([type |-> "SyntaxError"])
    ELSE IF ~text.object THEN Return(Null)
    ELSE Return(text.fields)

\* the try block of processExchange
processExchangeTry(exchange_) ==
    LET parsed == JSONparse(exchange_.content) IN
    IF parsed.kind = "throw" THEN parsed
    ELSE IF parsed.value = Null THEN Throw([type |-> "TypeError"])
    ELSE IF Get(parsed.value, "ok") = True THEN Return(Get(parsed.value, "result"))
    ELSE Throw([type |-> "ApiError",
                error_code |-> Get(parsed.value, "error_code"),
                description |-> Get(parsed.value, "description")])

\* mutant: the envelope's ok field is handed back, not its result field
processExchangeWrapped(exchange_) ==
    IF exchange_.status # 200
    THEN Throw([type |-> "TransportError", status |-> exchange_.status, content |-> exchange_.content])
    ELSE LET tried == processExchangeTry(exchange_) IN
         IF tried.kind = "throw"
         THEN Throw([type |-> "DecodeError", cause |-> tried.error])
         ELSE Return(True)

\* mutant: the body is read before the status is looked at
processExchangeBodyFirst(exchange_) ==
    LET tried == processExchangeTry(exchange_) IN
    IF tried.kind = "return" THEN tried
    ELSE IF exchange_.status # 200
    THEN Throw([type |-> "TransportError", status |-> exchange_.status, content |-> exchange_.content])
    ELSE Throw([type |-> "DecodeError", cause |-> tried.error])

\* processExchange(exchange): whatever the try block throws, the ApiError
\* included, is caught and thrown again as "Could not parse JSON response"
processExchange(exchange_) ==
    IF exchange_.status # 200
    THEN Throw([type |-> "TransportError", status |-> exchange_.status, content |-> exchange_.content])
    ELSE LET tried == processExchangeTry(exchange_) IN
         IF tried.kind = "throw"
         THEN Throw([type |-> "DecodeError", cause |-> tried.error])
         ELSE tried

(***************************************************************************)
(* Payloads.  An object is a function from its property names to values;   *)
(* a primitive value is a record [t, v].                                   *)
(***************************************************************************)
IsPrimitive(x) == DOMAIN x = {"t", "v"}

\* if (x): null and undefined are falsy, every object is truthy
Truthy(x) == IF IsPrimitive(x) THEN ~IsNullish(x) /\ x # False /\ x # Str(0) /\ x # Num(0) ELSE TRUE

\* String(x): a string stays what it is; any other value becomes the string
\* that prints it ("null", "undefined", the digits of a number)
String(x) == IF x.t = "string" THEN x ELSE [t |-> "string", v |-> x.v, of |-> x.t]

\* JSON.stringify(payload): properties holding undefined or a function are
\* left out; a string or a number is serialized as it is
JSONstringify(payload) ==
    IF IsPrimitive(payload) THEN payload
    ELSE [k \in {n \in DOMAIN payload : payload[n].t \notin {"undefined", "function"}} |-> payload[k]]

\* ringo/utils/objects: the module object holds functions only
objects == [merge |-> Fun, clone |-> Fun]

\* mutant: on a common key the value of the later argument stays
mergeLaterWins(base, options) ==
    IF DOMAIN options = {"t", "v"} THEN base
    ELSE [k \in DOMAIN base \cup DOMAIN options |-> IF k \in DOMAIN options THEN options[k] ELSE base[k]]

\* objects.merge(base, options): the keywise union of its arguments, built
\* from the last argument to the first, so that on a common key the value
\* of the earlier argument stays.  An options of null or undefined adds nothing.
merge(base, options) ==
    IF IsPrimitive(options) THEN base
    ELSE [k \in DOMAIN base \cup DOMAIN options |-> IF k \in DOMAIN base THEN base[k] ELSE options[k]]

\* payload != null && !payload instanceof Object: !payload is a boolean, and
\* a boolean is an instance of nothing, so the test never holds
IsInvalidPayload(payload) == ~IsNullish(payload) /\ FALSE

(***************************************************************************)
(* The calls are synchronous and made one after the other on the caller's  *)
(* thread: a call is entered when the caller is between two calls, and it  *)
(* has returned or thrown when its action is over.                         *)
(***************************************************************************)
NoCall == [op |-> "none"]
Ready == call = NoCall

\* mutant: the call uses its options up
optionsEmptied(args) == IF "options" \in DOMAIN args THEN EmptyObject ELSE Undefined

\* the options object after the call: no statement writes to it or to the
\* payload; merge copies into a new object and _requestMultipart fills the
\* new object multipartPayload
optionsAfter(args) == IF "options" \in DOMAIN args THEN args.options ELSE Undefined

\* the end of a call: what it leaves behind
Finish(op, args, reqs, ex, out, strs, closes, log) ==
    /\ call' = [op |-> op, args |-> args]
    /\ closeLog' = log
    /\ callerOptions' = optionsAfter(args)
    /\ UNCHANGED testVars
    /\ requests' = reqs
    /\ exchange' = ex
    /\ outcome' = out
    /\ streams' = strs
    /\ closeCalls' = closes
    /\ UNCHANGED descriptors

\* a throw before any request was made
Fail(op, args, error) == Finish(op, args, <<>>, NoExchange, Throw(error), streams, {}, <<>>)

\* mutant: the two arms of the conditional are exchanged
JsonRequestExchanged(path, payload) ==
    [url |-> baseURI \o path,
     method |-> "POST",
     data |-> IF Truthy(payload) THEN [type |-> "empty"]
                                 ELSE [type |-> "json", text |-> EmptyObject],
     contentType |-> "application/json; charset=utf-8"]

\* the argument of request() in _request
JsonRequest(path, payload) ==
    [url |-> baseURI \o path,
     method |-> "POST",
     data |-> IF Truthy(payload) THEN [type |-> "json", text |-> JSONstringify(payload)]
                                 ELSE [type |-> "empty"],
     contentType |-> "application/json; charset=utf-8"]

\* what a dispatch hands back for an exchange: request() raising goes
\* through to the caller, anything else is for processExchange
Dispatched(ex) == IF ex = Raised THEN Throw([type |-> "TransportException"]) ELSE processExchange(ex)

\* this._request(path, payload)
_request(op, args, path, payload) ==
    IF IsInvalidPayload(payload)
    THEN Fail(op, args, [type |-> "InvalidPayload"])
    ELSE \E ex \in Exchanges :
            Finish(op, args, <<JsonRequest(path, payload)>>, ex, Dispatched(ex), streams, {}, <<>>)

\* the stream of the MultipartStream value
StreamOf(value) == descriptors[value.v].stream

\* mutant: every MultipartStream becomes a BinaryPart
MultipartPayloadBinary(payload) ==
    [name \in DOMAIN payload |->
        IF payload[name].t = "MultipartStream"
        THEN [part |-> "BinaryPart", stream |-> StreamOf(payload[name]),
              filename |-> descriptors[payload[name].v].name]
        ELSE [part |-> "TextPart", text |-> String(payload[name])]]

\* the multipartPayload built by _requestMultipart: one part for each property
MultipartPayload(payload) ==
    [name \in DOMAIN payload |->
        IF payload[name].t = "MultipartStream"
        THEN IF streams[StreamOf(payload[name])].text
             THEN [part |-> "TextPart", stream |-> StreamOf(payload[name]),
                   filename |-> descriptors[payload[name].v].name]
             ELSE [part |-> "BinaryPart", stream |-> StreamOf(payload[name]),
                   filename |-> descriptors[payload[name].v].name]
        ELSE [part |-> "TextPart", text |-> String(payload[name])]]

\* the argument of request() in _requestMultipart
MultipartRequest(path, payload) ==
    [url |-> baseURI \o path,
     method |-> "POST",
     data |-> [type |-> "multipart", parts |-> MultipartPayload(payload)],
     contentType |-> "multipart/form-data"]

\* mutant: only the streams the library opened from a path are closed
ToCloseOwned(payload) ==
    {StreamOf(payload[name]) : name \in {n \in DOMAIN payload : payload[n].t = "MultipartStream"}}
        \cap {s \in DOMAIN streams : ~streams[s].closed /\ streams[s].origin = "path"}

\* mutant: the finally block is missing
ToCloseNone(payload) == {}

\* the finally block of _requestMultipart: the streams it calls close() on
ToClose(payload) ==
    {StreamOf(payload[name]) : name \in {n \in DOMAIN payload : payload[n].t = "MultipartStream"}}
        \cap {s \in DOMAIN streams : ~streams[s].closed}

\* mutant: close() is called without asking closed()
finallyLoopUnasked(payload) ==
    LET RECURSIVE loop(_)
        loop(names) ==
            IF names = {} THEN <<>>
            ELSE LET name == CHOOSE n \in names : TRUE IN
                 IF payload[name].t = "MultipartStream"
                 THEN <<StreamOf(payload[name])>> \o loop(names \ {name})
                 ELSE loop(names \ {name})
    IN loop(DOMAIN payload)

\* the loop of the finally block, property after property: close() is called
\* on the stream of a MultipartStream when closed() is false at that moment
finallyLoop(payload) ==
    LET RECURSIVE loop(_, _)
        loop(names, open) ==
            IF names = {} THEN <<>>
            ELSE LET name == CHOOSE n \in names : TRUE IN
                 IF payload[name].t = "MultipartStream" /\ StreamOf(payload[name]) \in open
                 THEN <<StreamOf(payload[name])>>
                          \o loop(names \ {name}, open \ {StreamOf(payload[name])})
                 ELSE loop(names \ {name}, open)
    IN loop(DOMAIN payload, {s \in DOMAIN streams : ~streams[s].closed})

\* stream.close() on each of these streams
Closed(strs, closes) == [s \in DOMAIN strs |-> IF s \in closes THEN [strs[s] EXCEPT !.closed = TRUE] ELSE strs[s]]

\* this._requestMultipart(path, payload)
_requestMultipart(op, args, path, payload) ==
    IF IsInvalidPayload(payload)
    THEN Fail(op, args, [type |-> "InvalidPayload"])
    ELSE \E ex \in Exchanges :
            Finish(op, args, <<MultipartRequest(path, payload)>>, ex, Dispatched(ex),
                   Closed(streams, ToClose(payload)), ToClose(payload), finallyLoop(payload))

(***************************************************************************)
(* The arguments the calls are made with.                                  *)
(***************************************************************************)
\* identifiers, texts, coordinates: absent, or one of two values
Args == {Null, Undefined, Str(3), Str(5)}

\* a file: absent, a file_id string, or one of the MultipartStream objects
Files == {Null, Str(3)} \cup {MS(i) : i \in DOMAIN descriptors}

\* chat titles and descriptions, on both sides of the limit of 255
Titles == {Null, Str(255), Str(256)}

\* sticker set names and titles, on both sides of the limit of 64
Names == {Null, Str(64), Str(65)}

\* sticker positions: integers, 1.5, and 2^53, the first integer above
\* Number.MAX_SAFE_INTEGER
Fraction == [t |-> "fraction", v |-> 1]
UnsafeInteger == [t |-> "unsafe integer", v |-> 53]
Positions == {Null, Num(0), Num(2), Num(-1), Fraction, UnsafeInteger}

\* inline query results: an array, or a string where the array should be
Array == [t |-> "array", v |-> 1]
Results == {Null, Array, Str(3)}

\* the options object: absent, or one that also names a required field
Options == {Undefined, [chat_id |-> Str(9), parse_mode |-> Str(4)]}

\* options that hold a file: the thumbnail of a video
ThumbOptions == {[thumb |-> MS(i)] : i \in DOMAIN descriptors}

\* the options of getUpdates: absent, with the offset of the poll, or a
\* string where the object should be
UpdateOptions == {Undefined, Null, [offset |-> Num(5), timeout |-> Num(0)], Str(7)}

\* mutant: the limit itself is refused
LengthReaches(x, n) == x.t = "string" /\ x.v >= n

\* x.length > n: the length of anything but a string is undefined, and
\* undefined > n is false
LengthExceeds(x, n) == x.t = "string" /\ x.v > n

\* mutant: only a positive number passes for a safe integer
IsPositive(x) == x.t \in {"number", "fraction", "unsafe integer"} /\ x.v > 0

\* Number.isSafeInteger(x)
IsSafeInteger(x) == x.t = "number"

\* x < n
LessThan(x, n) == x.t \in {"number", "fraction", "unsafe integer"} /\ x.v < n

\* !x instanceof Array: !x is a boolean, which is an instance of nothing
NotInstanceofArray(x) == FALSE

\* (options || {})
OrEmptyObject(options) == IF Truthy(options) THEN options ELSE EmptyObject

(***************************************************************************)
(* new MultipartStream(name, source).  The source is a Path, one of the    *)
(* streams the caller holds, or something that is neither.                 *)
(***************************************************************************)
Sources == {[source |-> "Path", stream |-> 0], [source |-> "String", stream |-> 0]}
               \cup {[source |-> "Stream", stream |-> i] : i \in DOMAIN streams}

\* openRaw(source, "r"): a new binary stream, open
openRaw == [closed |-> FALSE, text |-> FALSE, origin |-> "path"]

\* mutant: the name is not looked at
IsInvalidSource(name, source) == source.source \notin {"Stream", "Path"}

\* name == null || (!(source instanceof Stream) && !(source instanceof Path))
IsInvalidMultipartStream(name, source) ==
    IsNullish(name) \/ source.source \notin {"Stream", "Path"}

MultipartStream ==
    /\ Ready
    /\ Len(descriptors) < MaxDescriptors
    /\ \E name \in {Null, Undefined, Str(8)}, source \in Sources :
        /\ call' = [op |-> "MultipartStream", args |-> [name |-> name, source |-> source]]
        /\ requests' = <<>>
        /\ exchange' = NoExchange
        /\ closeCalls' = {}
        /\ closeLog' = <<>>
        /\ callerOptions' = Undefined
        /\ UNCHANGED testVars
        /\ IF IsInvalidMultipartStream(name, source)
           THEN /\ outcome' = Throw([type |-> "InvalidParameters"])
                /\ UNCHANGED <<streams, descriptors>>
           ELSE /\ outcome' = Return(MS(Len(descriptors) + 1))
                /\ IF source.source = "Stream"
                   THEN /\ descriptors' = Append(descriptors, [name |-> name, stream |-> source.stream])
                        /\ UNCHANGED streams
                   ELSE /\ streams' = Append(streams, openRaw)
                        /\ descriptors' = Append(descriptors, [name |-> name, stream |-> Len(streams) + 1])

(***************************************************************************)
(* The operations of the client.                                           *)
(***************************************************************************)
\* TelegramBot.prototype.setWebhook: the JSON request is made when there is
\* a certificate, the multipart request when there is none
setWebhook ==
    /\ Ready
    /\ \E url \in Args, cert \in Files :
            LET args == [url |-> url, cert |-> cert] IN
            IF ~IsNullish(cert)
            THEN _request("setWebhook", args, "/setWebhook", [url |-> url])
            ELSE _requestMultipart("setWebhook", args, "/setWebhook", [url |-> url, cert |-> cert])

\* the names bound where getFile's body is evaluated: the module's
\* declarations and the function's parameter
ScopeOfGetFile == {"Stream", "TextStream", "Path", "openRaw", "request", "TextPart", "BinaryPart",
                   "objects", "MultipartStream", "TelegramBot", "fileId"}

\* TelegramBot.prototype.getFile: the test reads the name getFile, which
\* nothing binds, and reading an unbound name is a ReferenceError
getFile ==
    /\ Ready
    /\ \E fileId \in Args :
            LET args == [fileId |-> fileId] IN
            IF "getFile" \notin ScopeOfGetFile
            THEN Fail("getFile", args, [type |-> "ReferenceError", name |-> "getFile"])
            ELSE _request("getFile", args, "/getFile", [file_id |-> fileId])

\* TelegramBot.prototype.editMessageCaption: throws when there are options,
\* and sends the objects module when there are none
editMessageCaption ==
    /\ Ready
    /\ \E options \in Options :
            LET args == [options |-> options] IN
            IF Truthy(options)
            THEN Fail("editMessageCaption", args, InsufficientParameters("/editMessageCaption"))
            ELSE _request("editMessageCaption", args, "/editMessageCaption", objects)

\* TelegramBot.prototype.getUpdates
getUpdates ==
    /\ Ready
    /\ \E options \in UpdateOptions :
            LET args == [options |-> options] IN
            _request("getUpdates", args, "/getUpdates", options)

\* TelegramBot.prototype.getMe
getMe ==
    /\ Ready
    /\ LET args == EmptyObject IN
        _request("getMe", args, "/getMe", Undefined)

\* TelegramBot.prototype.sendMessage
sendMessage ==
    /\ Ready
    /\ \E chatId \in Args, text \in Args, options \in Options :
            LET args == [chatId |-> chatId, text |-> text, options |-> options] IN
            IF IsNullish(chatId) \/ IsNullish(text)
            THEN Fail("sendMessage", args, InsufficientParameters("/sendMessage"))
            ELSE _request("sendMessage", args, "/sendMessage",
                     merge([chat_id |-> chatId, text |-> text], options))

\* TelegramBot.prototype.answerInlineQuery
answerInlineQuery ==
    /\ Ready
    /\ \E inlineQueryId \in Args, results \in Results, options \in Options :
            LET args == [inlineQueryId |-> inlineQueryId, results |-> results, options |-> options] IN
            IF IsNullish(inlineQueryId) \/ IsNullish(results) \/ NotInstanceofArray(results)
            THEN Fail("answerInlineQuery", args, InsufficientParameters("/answerInlineQuery"))
            ELSE _request("answerInlineQuery", args, "/answerInlineQuery",
                     merge([inline_query_id |-> inlineQueryId, results |-> results], options))

\* mutant: the two chat ids go under each other's key
forwardMessageExchanged ==
    /\ Ready
    /\ \E chatId \in Args, fromChatId \in Args, messageId \in Args, options \in Options :
            LET args == [chatId |-> chatId, fromChatId |-> fromChatId, messageId |-> messageId, options |-> options] IN
            IF IsNullish(chatId) \/ IsNullish(fromChatId) \/ IsNullish(messageId)
            THEN Fail("forwardMessage", args, InsufficientParameters("/forwardMessage"))
            ELSE _request("forwardMessage", args, "/forwardMessage",
                     merge([chat_id |-> fromChatId, from_chat_id |-> chatId, message_id |-> messageId], options))

\* TelegramBot.prototype.forwardMessage
forwardMessage ==
    /\ Ready
    /\ \E chatId \in Args, fromChatId \in Args, messageId \in Args, options \in Options :
            LET args == [chatId |-> chatId, fromChatId |-> fromChatId, messageId |-> messageId, options |-> options] IN
            IF IsNullish(chatId) \/ IsNullish(fromChatId) \/ IsNullish(messageId)
            THEN Fail("forwardMessage", args, InsufficientParameters("/forwardMessage"))
            ELSE _request("forwardMessage", args, "/forwardMessage",
                     merge([chat_id |-> chatId, from_chat_id |-> fromChatId, message_id |-> messageId], options))

\* TelegramBot.prototype.sendPhoto
sendPhoto ==
    /\ Ready
    /\ \E chatId \in Args, photo \in Files, options \in Options :
            LET args == [chatId |-> chatId, photo |-> photo, options |-> options] IN
            IF IsNullish(chatId) \/ IsNullish(photo)
            THEN Fail("sendPhoto", args, InsufficientParameters("/sendPhoto"))
            ELSE _requestMultipart("sendPhoto", args, "/sendPhoto",
                     merge([chat_id |-> chatId, photo |-> photo], options))

\* TelegramBot.prototype.sendAudio
sendAudio ==
    /\ Ready
    /\ \E chatId \in Args, audio \in Files, options \in Options :
            LET args == [chatId |-> chatId, audio |-> audio, options |-> options] IN
            IF IsNullish(chatId) \/ IsNullish(audio)
            THEN Fail("sendAudio", args, InsufficientParameters("/sendAudio"))
            ELSE _requestMultipart("sendAudio", args, "/sendAudio",
                     merge([chat_id |-> chatId, audio |-> audio], options))

\* TelegramBot.prototype.sendDocument
sendDocument ==
    /\ Ready
    /\ \E chatId \in Args, document \in Files, options \in Options :
            LET args == [chatId |-> chatId, document |-> document, options |-> options] IN
            IF IsNullish(chatId) \/ IsNullish(document)
            THEN Fail("sendDocument", args, InsufficientParameters("/sendDocument"))
            ELSE _requestMultipart("sendDocument", args, "/sendDocument",
                     merge([chat_id |-> chatId, document |-> document], options))

\* TelegramBot.prototype.sendSticker
sendSticker ==
    /\ Ready
    /\ \E chatId \in Args, sticker \in Files, options \in Options :
            LET args == [chatId |-> chatId, sticker |-> sticker, options |-> options] IN
            IF IsNullish(chatId) \/ IsNullish(sticker)
            THEN Fail("sendSticker", args, InsufficientParameters("/sendSticker"))
            ELSE _requestMultipart("sendSticker", args, "/sendSticker",
                     merge([chat_id |-> chatId, sticker |-> sticker], options))

\* TelegramBot.prototype.sendVideo; its options can name a file of their
\* own, the thumbnail
sendVideo ==
    /\ Ready
    /\ \E chatId \in Args, video \in Files, options \in Options \cup ThumbOptions :
            LET args == [chatId |-> chatId, video |-> video, options |-> options] IN
            IF IsNullish(chatId) \/ IsNullish(video)
            THEN Fail("sendVideo", args, InsufficientParameters("/sendVideo"))
            ELSE _requestMultipart("sendVideo", args, "/sendVideo",
                     merge([chat_id |-> chatId, video |-> video], options))

\* TelegramBot.prototype.sendVideoNote
sendVideoNote ==
    /\ Ready
    /\ \E chatId \in Args, videoNote \in Files, options \in Options :
            LET args == [chatId |-> chatId, videoNote |-> videoNote, options |-> options] IN
            IF IsNullish(chatId) \/ IsNullish(videoNote)
            THEN Fail("sendVideoNote", args, InsufficientParameters("/sendVideoNote"))
            ELSE _requestMultipart("sendVideoNote", args, "/sendVideoNote",
                     merge([chat_id |-> chatId, video_note |-> videoNote], options))

\* TelegramBot.prototype.sendVoice
sendVoice ==
    /\ Ready
    /\ \E chatId \in Args, voice \in Files, options \in Options :
            LET args == [chatId |-> chatId, voice |-> voice, options |-> options] IN
            IF IsNullish(chatId) \/ IsNullish(voice)
            THEN Fail("sendVoice", args, InsufficientParameters("/sendVoice"))
            ELSE _requestMultipart("sendVoice", args, "/sendVoice",
                     merge([chat_id |-> chatId, voice |-> voice], options))

\* TelegramBot.prototype.sendLocation
sendLocation ==
    /\ Ready
    /\ \E chatId \in Args, latitude \in Args, longitude \in Args, options \in Options :
            LET args == [chatId |-> chatId, latitude |-> latitude, longitude |-> longitude, options |-> options] IN
            IF IsNullish(chatId) \/ IsNullish(latitude) \/ IsNullish(longitude)
            THEN Fail("sendLocation", args, InsufficientParameters("/sendLocation"))
            ELSE _request("sendLocation", args, "/sendLocation",
                     merge([chat_id |-> chatId, latitude |-> latitude, longitude |-> longitude], options))

\* TelegramBot.prototype.sendVenue
sendVenue ==
    /\ Ready
    /\ \E chatId \in Args, latitude \in Args, longitude \in Args, title \in Args, address \in Args, options \in Options :
            LET args == [chatId |-> chatId, latitude |-> latitude, longitude |-> longitude, title |-> title, address |-> address, options |-> options] IN
            IF IsNullish(chatId) \/ IsNullish(latitude) \/ IsNullish(longitude) \/ IsNullish(title) \/ IsNullish(address)
            THEN Fail("sendVenue", args, InsufficientParameters("/sendVenue"))
            ELSE _request("sendVenue", args, "/sendVenue",
                     merge([chat_id |-> chatId, latitude |-> latitude, longitude |-> longitude, title |-> title, address |-> address], options))

\* TelegramBot.prototype.sendContact
sendContact ==
    /\ Ready
    /\ \E chatId \in Args, phoneNumber \in Args, firstName \in Args, options \in Options :
            LET args == [chatId |-> chatId, phoneNumber |-> phoneNumber, firstName |-> firstName, options |-> options] IN
            IF IsNullish(chatId) \/ IsNullish(phoneNumber) \/ IsNullish(firstName)
            THEN Fail("sendContact", args, InsufficientParameters("/sendContact"))
            ELSE _request("sendContact", args, "/sendContact",
                     merge([chat_id |-> chatId, phone_number |-> phoneNumber, first_name |-> firstName], options))

\* TelegramBot.prototype.sendChatAction
sendChatAction ==
    /\ Ready
    /\ \E chatId \in Args, action \in Args :
            LET args == [chatId |-> chatId, action |-> action] IN
            IF IsNullish(chatId) \/ IsNullish(action)
            THEN Fail("sendChatAction", args, InsufficientParameters("/sendChatAction"))
            ELSE _request("sendChatAction", args, "/sendChatAction",
                     [chat_id |-> chatId, action |-> action])

\* TelegramBot.prototype.getUserProfilePhotos
getUserProfilePhotos ==
    /\ Ready
    /\ \E userId \in Args, options \in Options :
            LET args == [userId |-> userId, options |-> options] IN
            IF IsNullish(userId)
            THEN Fail("getUserProfilePhotos", args, InsufficientParameters("/getUserProfilePhotos"))
            ELSE _request("getUserProfilePhotos", args, "/getUserProfilePhotos",
                     merge([user_id |-> userId], options))

\* TelegramBot.prototype.kickChatMember
kickChatMember ==
    /\ Ready
    /\ \E chatId \in Args, userId \in Args :
            LET args == [chatId |-> chatId, userId |-> userId] IN
            IF IsNullish(chatId) \/ IsNullish(userId)
            THEN Fail("kickChatMember", args, InsufficientParameters("/kickChatMember"))
            ELSE _request("kickChatMember", args, "/kickChatMember",
                     [chat_id |-> chatId, user_id |-> userId])

\* TelegramBot.prototype.leaveChat
leaveChat ==
    /\ Ready
    /\ \E chatId \in Args :
            LET args == [chatId |-> chatId] IN
            IF IsNullish(chatId)
            THEN Fail("leaveChat", args, InsufficientParameters("/leaveChat"))
            ELSE _request("leaveChat", args, "/leaveChat", [chat_id |-> chatId])

\* TelegramBot.prototype.unbanChatMember
unbanChatMember ==
    /\ Ready
    /\ \E chatId \in Args, userId \in Args :
            LET args == [chatId |-> chatId, userId |-> userId] IN
            IF IsNullish(chatId) \/ IsNullish(userId)
            THEN Fail("unbanChatMember", args, InsufficientParameters("/unbanChatMember"))
            ELSE _request("unbanChatMember", args, "/unbanChatMember",
                     [chat_id |-> chatId, user_id |-> userId])

\* TelegramBot.prototype.getChat
getChat ==
    /\ Ready
    /\ \E chatId \in Args :
            LET args == [chatId |-> chatId] IN
            IF IsNullish(chatId)
            THEN Fail("getChat", args, InsufficientParameters("/getChat"))
            ELSE _request("getChat", args, "/getChat", [chat_id |-> chatId])

\* TelegramBot.prototype.getChatAdministrators
getChatAdministrators ==
    /\ Ready
    /\ \E chatId \in Args :
            LET args == [chatId |-> chatId] IN
            IF IsNullish(chatId)
            THEN Fail("getChatAdministrators", args, InsufficientParameters("/getChatAdministrators"))
            ELSE _request("getChatAdministrators", args, "/getChatAdministrators", [chat_id |-> chatId])

\* TelegramBot.prototype.getChatMembersCount
getChatMembersCount ==
    /\ Ready
    /\ \E chatId \in Args :
            LET args == [chatId |-> chatId] IN
            IF IsNullish(chatId)
            THEN Fail("getChatMembersCount", args, InsufficientParameters("/getChatMembersCount"))
            ELSE _request("getChatMembersCount", args, "/getChatMembersCount", [chat_id |-> chatId])

\* TelegramBot.prototype.getChatMember
getChatMember ==
    /\ Ready
    /\ \E chatId \in Args, userId \in Args :
            LET args == [chatId |-> chatId, userId |-> userId] IN
            IF IsNullish(chatId) \/ IsNullish(userId)
            THEN Fail("getChatMember", args, InsufficientParameters("/getChatMember"))
            ELSE _request("getChatMember", args, "/getChatMember",
                     [chat_id |-> chatId, user_id |-> userId])

\* TelegramBot.prototype.answerCallbackQuery
answerCallbackQuery ==
    /\ Ready
    /\ \E callbackQueryId \in Args, options \in Options :
            LET args == [callbackQueryId |-> callbackQueryId, options |-> options] IN
            IF IsNullish(callbackQueryId)
            THEN Fail("answerCallbackQuery", args, InsufficientParameters("/answerCallbackQuery"))
            ELSE _request("answerCallbackQuery", args, "/answerCallbackQuery",
                     merge([callback_query_id |-> callbackQueryId], options))

\* TelegramBot.prototype.editMessageText
editMessageText ==
    /\ Ready
    /\ \E text \in Args, options \in Options :
            LET args == [text |-> text, options |-> options] IN
            IF IsNullish(text) \/ IsNullish(options)
            THEN Fail("editMessageText", args, InsufficientParameters("/editMessageText"))
            ELSE _request("editMessageText", args, "/editMessageText", merge([text |-> text], options))

\* TelegramBot.prototype.editMessageReplyMarkup
editMessageReplyMarkup ==
    /\ Ready
    /\ \E options \in Options :
            LET args == [options |-> options] IN
            IF IsNullish(options)
            THEN Fail("editMessageReplyMarkup", args, InsufficientParameters("/editMessageReplyMarkup"))
            ELSE _request("editMessageReplyMarkup", args, "/editMessageReplyMarkup", options)

\* TelegramBot.prototype.getWebhookInfo
getWebhookInfo ==
    /\ Ready
    /\ LET args == EmptyObject IN
        _request("getWebhookInfo", args, "/getWebhookInfo", Undefined)

\* TelegramBot.prototype.deleteMessage
deleteMessage ==
    /\ Ready
    /\ \E chatId \in Args, messageId \in Args :
            LET args == [chatId |-> chatId, messageId |-> messageId] IN
            IF IsNullish(chatId) \/ IsNullish(messageId)
            THEN Fail("deleteMessage", args, InsufficientParameters("/deleteMessage"))
            ELSE _request("deleteMessage", args, "/deleteMessage",
                     [chat_id |-> chatId, message_id |-> messageId])

\* TelegramBot.prototype.restrictChatMember
restrictChatMember ==
    /\ Ready
    /\ \E chatId \in Args, userId \in Args, options \in Options :
            LET args == [chatId |-> chatId, userId |-> userId, options |-> options] IN
            IF IsNullish(chatId) \/ IsNullish(userId)
            THEN Fail("restrictChatMember", args, InsufficientParameters("/restrictChatMember"))
            ELSE _request("restrictChatMember", args, "/restrictChatMember",
                     merge([chat_id |-> chatId, user_id |-> userId], OrEmptyObject(options)))

\* TelegramBot.prototype.promoteChatMember
promoteChatMember ==
    /\ Ready
    /\ \E chatId \in Args, userId \in Args, options \in Options :
            LET args == [chatId |-> chatId, userId |-> userId, options |-> options] IN
            IF IsNullish(chatId) \/ IsNullish(userId)
            THEN Fail("promoteChatMember", args, InsufficientParameters("/promoteChatMember"))
            ELSE _request("promoteChatMember", args, "/promoteChatMember",
                     merge([chat_id |-> chatId, user_id |-> userId], OrEmptyObject(options)))

\* TelegramBot.prototype.exportChatInviteLink
exportChatInviteLink ==
    /\ Ready
    /\ \E chatId \in Args :
            LET args == [chatId |-> chatId] IN
            IF IsNullish(chatId)
            THEN Fail("exportChatInviteLink", args, InsufficientParameters("/exportChatInviteLink"))
            ELSE _request("exportChatInviteLink", args, "/exportChatInviteLink", [chat_id |-> chatId])

\* TelegramBot.prototype.setChatPhoto
setChatPhoto ==
    /\ Ready
    /\ \E chatId \in Args, photo \in Files :
            LET args == [chatId |-> chatId, photo |-> photo] IN
            IF IsNullish(chatId) \/ IsNullish(photo)
            THEN Fail("setChatPhoto", args, InsufficientParameters("/setChatPhoto"))
            ELSE _requestMultipart("setChatPhoto", args, "/setChatPhoto",
                     [chat_id |-> chatId, photo |-> photo])

\* TelegramBot.prototype.deleteChatPhoto
deleteChatPhoto ==
    /\ Ready
    /\ \E chatId \in Args :
            LET args == [chatId |-> chatId] IN
            IF IsNullish(chatId)
            THEN Fail("deleteChatPhoto", args, InsufficientParameters("/deleteChatPhoto"))
            ELSE _request("deleteChatPhoto", args, "/deleteChatPhoto", [chat_id |-> chatId])

\* TelegramBot.prototype.setChatTitle
setChatTitle ==
    /\ Ready
    /\ \E chatId \in Args, title \in Titles :
            LET args == [chatId |-> chatId, title |-> title] IN
            IF IsNullish(chatId) \/ IsNullish(title) \/ LengthExceeds(title, 255)
            THEN Fail("setChatTitle", args, InsufficientParameters("/setChatTitle"))
            ELSE _request("setChatTitle", args, "/setChatTitle", [chat_id |-> chatId, title |-> title])

\* TelegramBot.prototype.setChatDescription
setChatDescription ==
    /\ Ready
    /\ \E chatId \in Args, description \in Titles :
            LET args == [chatId |-> chatId, description |-> description] IN
            IF IsNullish(chatId) \/ IsNullish(description) \/ LengthExceeds(description, 255)
            THEN Fail("setChatDescription", args, InsufficientParameters("/setChatDescription"))
            ELSE _request("setChatDescription", args, "/setChatDescription",
                     [chat_id |-> chatId, description |-> description])

\* TelegramBot.prototype.pinChatMessage
pinChatMessage ==
    /\ Ready
    /\ \E chatId \in Args, messageId \in Args, options \in Options :
            LET args == [chatId |-> chatId, messageId |-> messageId, options |-> options] IN
            IF IsNullish(chatId) \/ IsNullish(messageId)
            THEN Fail("pinChatMessage", args, InsufficientParameters("/pinChatMessage"))
            ELSE _request("pinChatMessage", args, "/pinChatMessage",
                     merge([chat_id |-> chatId, message_id |-> messageId], OrEmptyObject(options)))

\* TelegramBot.prototype.unpinChatMessage
unpinChatMessage ==
    /\ Ready
    /\ \E chatId \in Args :
            LET args == [chatId |-> chatId] IN
            IF IsNullish(chatId)
            THEN Fail("unpinChatMessage", args, InsufficientParameters("/unpinChatMessage"))
            ELSE _request("unpinChatMessage", args, "/unpinChatMessage", [chat_id |-> chatId])

\* TelegramBot.prototype.getStickerSet
getStickerSet ==
    /\ Ready
    /\ \E name \in Args :
            LET args == [name |-> name] IN
            IF IsNullish(name)
            THEN Fail("getStickerSet", args, InsufficientParameters("/getStickerSet"))
            ELSE _request("getStickerSet", args, "/getStickerSet", [name |-> name])

\* mutant: the file goes out as JSON
uploadStickerFileAsJson ==
    /\ Ready
    /\ \E userId \in Args, pngSticker \in Files :
            LET args == [userId |-> userId, pngSticker |-> pngSticker] IN
            IF IsNullish(userId) \/ IsNullish(pngSticker)
            THEN Fail("uploadStickerFile", args, InsufficientParameters("/uploadStickerFile"))
            ELSE _request("uploadStickerFile", args, "/uploadStickerFile",
                     [user_id |-> userId, png_sticker |-> pngSticker])

\* TelegramBot.prototype.uploadStickerFile
uploadStickerFile ==
    /\ Ready
    /\ \E userId \in Args, pngSticker \in Files :
            LET args == [userId |-> userId, pngSticker |-> pngSticker] IN
            IF IsNullish(userId) \/ IsNullish(pngSticker)
            THEN Fail("uploadStickerFile", args, InsufficientParameters("/uploadStickerFile"))
            ELSE _requestMultipart("uploadStickerFile", args, "/uploadStickerFile",
                     [user_id |-> userId, png_sticker |-> pngSticker])

\* TelegramBot.prototype.createNewStickerSet
createNewStickerSet ==
    /\ Ready
    /\ \E userId \in Args, name \in Names, title \in Names, pngSticker \in Files, emojis \in Args, options \in Options :
            LET args == [userId |-> userId, name |-> name, title |-> title, pngSticker |-> pngSticker, emojis |-> emojis, options |-> options] IN
            IF IsNullish(userId) \/ IsNullish(name) \/ LengthExceeds(name, 64) \/ IsNullish(title) \/ LengthExceeds(title, 64) \/ IsNullish(pngSticker) \/ IsNullish(emojis)
            THEN Fail("createNewStickerSet", args, InsufficientParameters("/createNewStickerSet"))
            ELSE _requestMultipart("createNewStickerSet", args, "/createNewStickerSet",
                     merge([user_id |-> userId, name |-> name, title |-> title, png_sticker |-> pngSticker, emojis |-> emojis], options))

\* TelegramBot.prototype.addStickerToSet
addStickerToSet ==
    /\ Ready
    /\ \E userId \in Args, name \in Names, title \in Names, pngSticker \in Files, emojis \in Args, options \in Options :
            LET args == [userId |-> userId, name |-> name, title |-> title, pngSticker |-> pngSticker, emojis |-> emojis, options |-> options] IN
            IF IsNullish(userId) \/ IsNullish(name) \/ LengthExceeds(name, 64) \/ IsNullish(title) \/ LengthExceeds(title, 64) \/ IsNullish(pngSticker) \/ IsNullish(emojis)
            THEN Fail("addStickerToSet", args, InsufficientParameters("/addStickerToSet"))
            ELSE _requestMultipart("addStickerToSet", args, "/addStickerToSet",
                     merge([user_id |-> userId, name |-> name, title |-> title, png_sticker |-> pngSticker, emojis |-> emojis], options))

\* TelegramBot.prototype.setStickerPositionInSet
setStickerPositionInSet ==
    /\ Ready
    /\ \E sticker \in Args, position \in Positions :
            LET args == [sticker |-> sticker, position |-> position] IN
            IF IsNullish(sticker) \/ ~IsSafeInteger(position) \/ LessThan(position, 0)
            THEN Fail("setStickerPositionInSet", args, InsufficientParameters("/setStickerPositionInSet"))
            ELSE _request("setStickerPositionInSet", args, "/setStickerPositionInSet",
                     [sticker |-> sticker, position |-> position])

\* TelegramBot.prototype.deleteStickerFromSet
deleteStickerFromSet ==
    /\ Ready
    /\ \E sticker \in Args :
            LET args == [sticker |-> sticker] IN
            IF IsNullish(sticker)
            THEN Fail("deleteStickerFromSet", args, InsufficientParameters("/deleteStickerFromSet"))
            ELSE _request("deleteStickerFromSet", args, "/deleteStickerFromSet", [sticker |-> sticker])

(***************************************************************************)
(* The utility functions (lib/utils.js).                                   *)
(***************************************************************************)
\* the update_id values of the updates, and the arrays of updates
UpdateIds == {-2, 1, 3}
Updates == UNION {[1..n -> [update_id : UpdateIds]] : n \in 0..MaxUpdates}

\* updates.reduce(function(max, update) { ... }, max)
RECURSIVE reduceHighest(_, _)
reduceHighest(updates, max) ==
    IF updates = <<>> THEN max
    ELSE reduceHighest(Tail(updates),
                       IF Head(updates).update_id > max THEN Head(updates).update_id ELSE max)

\* mutant: the comparison is turned around
getLowestUpdateId(updates) ==
    LET RECURSIVE reduceLowest(_, _)
        reduceLowest(us, min) ==
            IF us = <<>> THEN min
            ELSE reduceLowest(Tail(us), IF Head(us).update_id < min THEN Head(us).update_id ELSE min)
    IN reduceLowest(updates, 0)

\* exports.getHighestUpdateId(updates)
getHighestUpdateId(updates) == reduceHighest(updates, 0)

\* a call of utils.getHighestUpdateId
utils_getHighestUpdateId ==
    /\ Ready
    /\ \E updates \in Updates :
            Finish("utils.getHighestUpdateId", [updates |-> updates], <<>>, NoExchange,
                   Return(Num(getHighestUpdateId(updates))), streams, {}, <<>>)

\* reading a property of null or undefined
TypeError == [type |-> "TypeError"]

\* x[key] where x is not null or undefined: a string or a number has no
\* property of the names read here
Member(x, key) == IF IsPrimitive(x) THEN Undefined ELSE Get(x, key)

\* x.a.b...: the value, or the TypeError of reading a property of null or
\* undefined on the way
RECURSIVE Read(_, _)
Read(x, path) ==
    IF path = <<>> THEN Return(x)
    ELSE IF IsNullish(x) THEN Throw(TypeError)
    ELSE Read(Member(x, Head(path)), Tail(path))

\* a property that an object literal leaves out
Absent == [t |-> "absent", v |-> 0]

\* { k1: x1, k2: x2 } without the properties that are left out
ObjectOf(k1, x1, k2, x2) ==
    [n \in {k \in {k1} : x1 # Absent} \cup {k \in {k2} : x2 # Absent} |-> IF n = k1 THEN x1 ELSE x2]

\* what the message property of an update holds: nothing, undefined, null,
\* a message without chat, with a null chat, with a chat
MessageValues ==
    {Absent, Undefined, Null, [text |-> Str(3)], [chat |-> Null], [chat |-> [id |-> Num(42)]]}

\* what the chat property of a message holds
ChatValues == {Absent, Null, [id |-> Num(9)], [title |-> Str(3)]}

\* the envelopes handed to getChatIdFromMessage
Envelopes == {ObjectOf("message", m, "chat", c) : m \in MessageValues, c \in ChatValues}

\* mutant: the chat of the envelope is looked at first
getChatIdChatFirst(envelope) ==
    IF Get(envelope, "chat") # Undefined
    THEN Read(envelope, <<"chat", "id">>)
    ELSE IF Get(envelope, "message") # Undefined
    THEN Read(envelope, <<"message", "chat", "id">>)
    ELSE Return(Null)

\* exports.getChatIdFromMessage(envelope)
getChatIdFromMessage(envelope) ==
    IF Get(envelope, "message") # Undefined
    THEN Read(envelope, <<"message", "chat", "id">>)
    ELSE IF Get(envelope, "chat") # Undefined
    THEN Read(envelope, <<"chat", "id">>)
    ELSE Return(Null)

\* a call of utils.getChatIdFromMessage
utils_getChatIdFromMessage ==
    /\ Ready
    /\ \E envelope \in Envelopes :
            Finish("utils.getChatIdFromMessage", [envelope |-> envelope], <<>>, NoExchange,
                   getChatIdFromMessage(envelope), streams, {}, <<>>)

\* the updates handed to getInlineQuery and isInlineQuery
InlineUpdates ==
    {ObjectOf("inline_query", q, "message", m) :
        q \in {Absent, Undefined, Null, [id |-> Str(3)]}, m \in {Absent, [chat |-> [id |-> Num(42)]]}}

\* exports.getInlineQuery(update)
getInlineQuery(update) == Get(update, "inline_query")

\* exports.isInlineQuery(update)
isInlineQuery(update) == IF Get(update, "inline_query") # Undefined THEN True ELSE False

\* a call of utils.getInlineQuery
utils_getInlineQuery ==
    /\ Ready
    /\ \E update \in InlineUpdates :
            Finish("utils.getInlineQuery", [update |-> update], <<>>, NoExchange,
                   Return(getInlineQuery(update)), streams, {}, <<>>)

\* a call of utils.isInlineQuery
utils_isInlineQuery ==
    /\ Ready
    /\ \E update \in InlineUpdates :
            Finish("utils.isInlineQuery", [update |-> update], <<>>, NoExchange,
                   Return(isInlineQuery(update)), streams, {}, <<>>)

(***************************************************************************)
(* The specification.                                                      *)
(***************************************************************************)
\* there is no file offset.txt
NoFile == [exists |-> FALSE, text |-> <<>>]

\* the streams the caller holds at the start: text or binary, open or closed
CallerStreams == [closed : BOOLEAN, text : BOOLEAN, origin : {"caller"}]
InitStreams == UNION {[1..n -> CallerStreams] : n \in 0..MaxCallerStreams}

\* const bot = new TelegramBot(TOKEN)
Init ==
    /\ streams \in InitStreams
    /\ descriptors = <<>>
    /\ call = NoCall
    /\ requests = <<>>
    /\ exchange = NoExchange
    /\ outcome = Return(Undefined)
    /\ closeCalls = {}
    /\ closeLog = <<>>
    /\ callerOptions = Undefined
    /\ offsetTxt = NoFile
    /\ offset = 0
    /\ pc = "idle"
    /\ batch = <<>>
    /\ delivered = {}
    /\ confirmed = {}

\* the caller has looked at what the call gave and goes on to its next statement
Proceed ==
    /\ ~Ready
    /\ call' = NoCall
    /\ requests' = <<>>
    /\ exchange' = NoExchange
    /\ outcome' = Return(Undefined)
    /\ closeCalls' = {}
    /\ closeLog' = <<>>
    /\ callerOptions' = Undefined
    /\ UNCHANGED <<streams, descriptors>>
    /\ UNCHANGED testVars

Next ==
    \/ Proceed
    \/ MultipartStream
    \/ setWebhook
    \/ getUpdates
    \/ getMe
    \/ sendMessage
    \/ answerInlineQuery
    \/ forwardMessage
    \/ sendPhoto
    \/ sendAudio
    \/ sendDocument
    \/ sendSticker
    \/ sendVideo
    \/ sendVideoNote
    \/ sendVoice
    \/ sendLocation
    \/ sendVenue
    \/ sendContact
    \/ sendChatAction
    \/ getUserProfilePhotos
    \/ getFile
    \/ kickChatMember
    \/ leaveChat
    \/ unbanChatMember
    \/ getChat
    \/ getChatAdministrators
    \/ getChatMembersCount
    \/ getChatMember
    \/ answerCallbackQuery
    \/ editMessageText
    \/ editMessageCaption
    \/ editMessageReplyMarkup
    \/ getWebhookInfo
    \/ deleteMessage
    \/ restrictChatMember
    \/ promoteChatMember
    \/ exportChatInviteLink
    \/ setChatPhoto
    \/ deleteChatPhoto
    \/ setChatTitle
    \/ setChatDescription
    \/ pinChatMessage
    \/ unpinChatMessage
    \/ getStickerSet
    \/ uploadStickerFile
    \/ createNewStickerSet
    \/ addStickerToSet
    \/ setStickerPositionInSet
    \/ deleteStickerFromSet
    \/ utils_getHighestUpdateId
    \/ utils_getChatIdFromMessage
    \/ utils_getInlineQuery
    \/ utils_isInlineQuery

Spec == Init /\ [][Next]_vars

(***************************************************************************)
(* The runs of the tests (tests/test-chats.js, tests/test-inline.js).  A   *)
(* run is setUp and then the test: one poll with the stored offset, the    *)
(* handling of the updates, and the writing of the new offset.  Both tests *)
(* have this shape and resolve offset.txt to the same file.                *)
(***************************************************************************)
\* the characters of a decimal number
DigitChar == <<"0", "1", "2", "3", "4", "5", "6", "7", "8", "9">>

\* String(n) of an integer, as fs.write(path, n) writes it
RECURSIVE NumberToString(_)
NumberToString(n) ==
    IF n < 0 THEN <<"-">> \o NumberToString(-n)
    ELSE IF n < 10 THEN <<DigitChar[n + 1]>>
    ELSE NumberToString(n \div 10) \o <<DigitChar[(n % 10) + 1]>>

\* not a number
NaN == [t |-> "NaN", v |-> 0]

\* parseInt(text, 10): an optional sign and the digits up to the first
\* character that is no digit; NaN when there is no digit
parseInt(text) ==
    LET negative == text # <<>> /\ Head(text) = "-"
        body == IF negative THEN Tail(text) ELSE text
        IsDigit(c) == \E d \in 1..10 : DigitChar[d] = c
        DigitValue(c) == (CHOOSE d \in 1..10 : DigitChar[d] = c) - 1
        RECURSIVE digits(_, _)
        digits(cs, n) ==
            IF cs = <<>> \/ ~IsDigit(Head(cs)) THEN n
            ELSE digits(Tail(cs), 10 * n + DigitValue(Head(cs)))
    IN IF body = <<>> \/ ~IsDigit(Head(body)) THEN NaN
       ELSE Num(IF negative THEN 0 - digits(body, 0) ELSE digits(body, 0))

\* what offset.txt holds when the first run starts: nothing, an offset that
\* an earlier run wrote, or something that is no number
StoredFiles ==
    {NoFile, [exists |-> TRUE, text |-> <<"x">>]}
        \cup {[exists |-> TRUE, text |-> NumberToString(n)] : n \in 1..2}

\* the batches the server answers a poll with: updates of distinct ids, none
\* below the offset of the poll
Batches(from) ==
    {b \in UNION {[1..n -> [update_id : 0..MaxUpdateId]] : n \in 0..MaxUpdates} :
        /\ \A i \in DOMAIN b : b[i].update_id >= from
        /\ \A i, j \in DOMAIN b : i # j => b[i].update_id # b[j].update_id}

\* the ids of the updates of a batch
Ids(updates) == {updates[i].update_id : i \in DOMAIN updates}

\* exports.setUp: the module starts with offset 0 and takes the stored one
setUp ==
    /\ pc = "idle"
    /\ IF offsetTxt.exists
       THEN IF parseInt(offsetTxt.text) # NaN
            THEN offset' = parseInt(offsetTxt.text).v /\ pc' = "getUpdates"
            ELSE offset' = 0 /\ pc' = "idle"
       ELSE offset' = 0 /\ pc' = "getUpdates"
    /\ batch' = <<>>
    /\ UNCHANGED <<offsetTxt, delivered, confirmed>>
    /\ UNCHANGED clientVars

\* const updates = bot.getUpdates({offset: offset}): the call throws and the
\* run is over, or it returns a batch
test_getUpdates ==
    /\ pc = "getUpdates"
    /\ \/ pc' = "idle" /\ UNCHANGED <<batch, delivered>>
       \/ \E updates \in Batches(offset) :
            /\ batch' = updates
            /\ delivered' = delivered \cup Ids(updates)
            /\ pc' = "forEach"
    /\ UNCHANGED <<offsetTxt, offset, confirmed>>
    /\ UNCHANGED clientVars

\* updates.forEach(...): every update is handled, or the handling of one
\* throws (a call of the client fails, an assertion fails) and the run is over
test_forEach ==
    /\ pc = "forEach"
    /\ pc' \in (IF batch = <<>> THEN {"write"} ELSE {"write", "idle"})
    /\ UNCHANGED <<offsetTxt, offset, batch, delivered, confirmed>>
    /\ UNCHANGED clientVars

\* mutant: the highest id itself is written
test_writeHighest ==
    /\ pc = "write"
    /\ IF Len(batch) > 0
       THEN /\ offsetTxt' = [exists |-> TRUE, text |-> NumberToString(getHighestUpdateId(batch))]
            /\ confirmed' = confirmed \cup Ids(batch)
       ELSE UNCHANGED <<offsetTxt, confirmed>>
    /\ pc' = "idle"
    /\ UNCHANGED <<offset, batch, delivered>>
    /\ UNCHANGED clientVars

\* if (updates.length > 0) fs.write(offset.txt, utils.getHighestUpdateId(updates) + 1)
test_write ==
    /\ pc = "write"
    /\ IF Len(batch) > 0
       THEN /\ offsetTxt' = [exists |-> TRUE, text |-> NumberToString(getHighestUpdateId(batch) + 1)]
            /\ confirmed' = confirmed \cup Ids(batch)
       ELSE UNCHANGED <<offsetTxt, confirmed>>
    /\ pc' = "idle"
    /\ UNCHANGED <<offset, batch, delivered>>
    /\ UNCHANGED clientVars

\* the tests are run again and again, offset.txt is what stays between runs
TestInit ==
    /\ streams = <<>>
    /\ descriptors = <<>>
    /\ call = NoCall
    /\ requests = <<>>
    /\ exchange = NoExchange
    /\ outcome = Return(Undefined)
    /\ closeCalls = {}
    /\ closeLog = <<>>
    /\ callerOptions = Undefined
    /\ offsetTxt \in StoredFiles
    /\ offset = 0
    /\ pc = "idle"
    /\ batch = <<>>
    /\ delivered = {}
    /\ confirmed = {}

TestNext ==
    \/ setUp
    \/ test_getUpdates
    \/ test_forEach
    \/ test_write

TestSpec == TestInit /\ [][TestNext]_vars

(***************************************************************************)
(* What the claims speak about.                                            *)
(***************************************************************************)
\* the last call was an operation of the client
OperationCalled ==
    call.op \notin {"none", "MultipartStream", "utils.getHighestUpdateId",
                    "utils.getChatIdFromMessage", "utils.getInlineQuery", "utils.isInlineQuery"}

\* the last call got an exchange with this status from request()
GotStatus(status) == "status" \in DOMAIN exchange /\ exchange.status = status

\* the body of the exchange is JSON text of an object
GotJsonObject == exchange.content.json /\ exchange.content.object

\* the body of the exchange is an envelope whose ok is the boolean true
GotOkTrue ==
    /\ GotJsonObject
    /\ "ok" \in DOMAIN exchange.content.fields
    /\ exchange.content.fields.ok = True

\* the field of the envelope, undefined when the envelope has none of that name
EnvelopeField(name) ==
    IF name \in DOMAIN exchange.content.fields THEN exchange.content.fields[name] ELSE Undefined

\* the last call made a multipart request with a file part that reads stream s
SentStream(s) ==
    \E i \in DOMAIN requests :
        /\ requests[i].data.type = "multipart"
        /\ \E n \in DOMAIN requests[i].data.parts :
            /\ "stream" \in DOMAIN requests[i].data.parts[n]
            /\ requests[i].data.parts[n].stream = s

\* the operations that transmit a file
MultipartOperations ==
    {"sendPhoto", "sendAudio", "sendDocument", "sendSticker", "sendVideo", "sendVideoNote",
     "sendVoice", "setChatPhoto", "uploadStickerFile", "createNewStickerSet", "addStickerToSet"}

\* the streams of the MultipartStream objects among the arguments of the last call
ArgumentStreams ==
    {descriptors[call.args[k].v].stream :
        k \in {a \in DOMAIN call.args : IsPrimitive(call.args[a]) /\ call.args[a].t = "MultipartStream"}}

\* the parameters an operation needs: all but its options and the
\* certificate of setWebhook; the three edit operations need their options
RequiredParameters ==
    IF call.op \in {"editMessageText", "editMessageCaption", "editMessageReplyMarkup"}
    THEN DOMAIN call.args
    ELSE DOMAIN call.args \ {"options", "cert"}

(***************************************************************************)
(* C1: whenever a call of any operation got status 200 and a body that is  *)
(* an envelope whose ok is the boolean true, the call returned the         *)
(* envelope's result field itself and threw nothing.                       *)
(***************************************************************************)
C1_OkEnvelopeReturnsResult ==
    (OperationCalled /\ GotStatus(200) /\ GotOkTrue) => outcome = Return(EnvelopeField("result"))

C1_Witness ==
    /\ OperationCalled /\ GotStatus(200) /\ GotOkTrue
    /\ call.op = "sendPhoto"
    /\ outcome = Return(Str(7))

(***************************************************************************)
(* C2: whenever a call got status 200 and a JSON envelope whose ok is not  *)
(* true, it threw an ApiError with the envelope's error_code and           *)
(* description, not the error of an unparseable body.                      *)
(***************************************************************************)
C2_ErrorEnvelopeIsApiError ==
    (OperationCalled /\ GotStatus(200) /\ GotJsonObject /\ ~GotOkTrue)
        => outcome = Throw([type |-> "ApiError",
                            error_code |-> EnvelopeField("error_code"),
                            description |-> EnvelopeField("description")])

(***************************************************************************)
(* C3: a call of an operation with a required parameter that is null or    *)
(* undefined threw the insufficient-parameters error and made no request.  *)
(***************************************************************************)
C3_AbsentRequiredParameterFails ==
    (OperationCalled /\ call.op # "setWebhook" /\ \E k \in RequiredParameters : IsNullish(call.args[k]))
        => /\ requests = <<>>
           /\ outcome.kind = "throw"
           /\ outcome.error.type = "ValidationError"

(***************************************************************************)
(* C4: after a call that made a multipart request with a file part reading *)
(* a stream opened from a path, that stream is closed, however the request *)
(* ended.                                                                  *)
(***************************************************************************)
C4_PathStreamClosedAfterDispatch ==
    \A s \in DOMAIN streams : (SentStream(s) /\ streams[s].origin = "path") => streams[s].closed

C4_Witness ==
    \E s \in DOMAIN streams :
        /\ SentStream(s) /\ streams[s].origin = "path"
        /\ s \in closeCalls
        /\ exchange = Raised
        /\ outcome.kind = "throw"

C6_StreamReleasedOnEveryFailure ==
    (call.op \in MultipartOperations /\ outcome.kind = "throw")
        => \A s \in ArgumentStreams : streams[s].origin = "path" => streams[s].closed

(***************************************************************************)
(* C7: whenever a call got a status other than 200 it threw a              *)
(* TransportError with that status and the raw body, whatever the body     *)
(* was, an envelope with ok true included.                                 *)
(***************************************************************************)
C7_Not200IsTransportError ==
    (OperationCalled /\ "status" \in DOMAIN exchange /\ exchange.status # 200)
        => outcome = Throw([type |-> "TransportError",
                            status |-> exchange.status, content |-> exchange.content])

C7_Witness ==
    /\ OperationCalled /\ GotStatus(404)
    /\ exchange.content = OkEnvelope
    /\ outcome.kind = "throw"
    /\ outcome.error.type = "TransportError"

(***************************************************************************)
(* C8: a call threw a DecodeError exactly when it got status 200 and a     *)
(* body that is not JSON.                                                  *)
(***************************************************************************)
C8_DecodeErrorIffNotJson ==
    OperationCalled =>
        ((outcome.kind = "throw" /\ outcome.error.type = "DecodeError")
            <=> (GotStatus(200) /\ ~exchange.content.json))

(***************************************************************************)
(* C9: getFile with a fileId that is not absent made one JSON POST to      *)
(* /getFile with the body {file_id: fileId}; with an absent fileId it      *)
(* threw and made no request.                                              *)
(***************************************************************************)
C9_GetFileRequestsFileId ==
    call.op = "getFile" =>
        IF IsNullish(call.args.fileId)
        THEN requests = <<>> /\ outcome.kind = "throw"
        ELSE requests = <<[url |-> baseURI \o "/getFile",
                           method |-> "POST",
                           data |-> [type |-> "json", text |-> [file_id |-> call.args.fileId]],
                           contentType |-> "application/json; charset=utf-8"]>>

(***************************************************************************)
(* C10: setWebhook with a certificate made a multipart POST with the parts *)
(* url and cert, the cert part being the file; without a certificate its   *)
(* request carried url and no cert.                                        *)
(***************************************************************************)
C10_SetWebhookUploadsCertificate ==
    call.op = "setWebhook" =>
        /\ Len(requests) = 1
        /\ requests[1].url = baseURI \o "/setWebhook"
        /\ IF IsNullish(call.args.cert)
           THEN \/ requests[1].data.type = "json" /\ DOMAIN requests[1].data.text \subseteq {"url"}
                \/ requests[1].data.type = "multipart" /\ DOMAIN requests[1].data.parts = {"url"}
           ELSE /\ requests[1].data.type = "multipart"
                /\ DOMAIN requests[1].data.parts = {"url", "cert"}
                /\ call.args.cert.t = "MultipartStream" => SentStream(StreamOf(call.args.cert))

(***************************************************************************)
(* More of what the claims speak about.                                    *)
(***************************************************************************)
\* the key under which each parameter goes on the wire
WireKey ==
    [chatId |-> "chat_id", text |-> "text", inlineQueryId |-> "inline_query_id", results |-> "results",
     fromChatId |-> "from_chat_id", messageId |-> "message_id", photo |-> "photo", audio |-> "audio",
     document |-> "document", sticker |-> "sticker", video |-> "video", videoNote |-> "video_note",
     voice |-> "voice", latitude |-> "latitude", longitude |-> "longitude", title |-> "title",
     address |-> "address", phoneNumber |-> "phone_number", firstName |-> "first_name",
     action |-> "action", userId |-> "user_id", callbackQueryId |-> "callback_query_id",
     description |-> "description", name |-> "name", pngSticker |-> "png_sticker",
     emojis |-> "emojis", position |-> "position", url |-> "url", cert |-> "cert"]

\* the parameters of the last call that are not its options
Positional == DOMAIN call.args \ {"options"}

\* the last call was given an options object
HasOptions == "options" \in DOMAIN call.args /\ DOMAIN call.args.options # {"t", "v"}

\* the names of the options of the last call
OptionKeys == IF HasOptions THEN DOMAIN call.args.options ELSE {}

\* the operations that merge their options into a payload of required fields
MergingOperations ==
    {"sendMessage", "answerInlineQuery", "forwardMessage", "sendPhoto", "sendAudio", "sendDocument",
     "sendSticker", "sendVideo", "sendVideoNote", "sendVoice", "sendLocation", "sendVenue",
     "sendContact", "getUserProfilePhotos", "answerCallbackQuery", "editMessageText",
     "restrictChatMember", "promoteChatMember", "pinChatMessage", "createNewStickerSet",
     "addStickerToSet"}

\* the last call made exactly one request
Dispatched1 == Len(requests) = 1

\* the names of the fields that the request of the last call carries
SentKeys ==
    IF requests[1].data.type = "json" THEN DOMAIN requests[1].data.text
    ELSE IF requests[1].data.type = "multipart" THEN DOMAIN requests[1].data.parts
    ELSE {}

\* the string form of a value: a string is its own, null is "null", ...
StringForm(x) == IF x.t = "string" THEN x ELSE [t |-> "string", v |-> x.v, of |-> x.t]

\* the part that a multipart request is to carry for the value x
PartFor(x) ==
    IF x.t = "MultipartStream"
    THEN [part |-> IF streams[descriptors[x.v].stream].text THEN "TextPart" ELSE "BinaryPart",
          stream |-> descriptors[x.v].stream,
          filename |-> descriptors[x.v].name]
    ELSE [part |-> "TextPart", text |-> StringForm(x)]

\* the request of the last call carries the value x under the key k
SentAs(k, x) ==
    /\ k \in SentKeys
    /\ IF requests[1].data.type = "json"
       THEN requests[1].data.text[k] = x
       ELSE requests[1].data.parts[k] = PartFor(x)

\* the largest of a non-empty set of numbers
Max(S) == CHOOSE m \in S : \A x \in S : x <= m

(***************************************************************************)
(* C11: editMessageCaption with an options object made one JSON POST to    *)
(* /editMessageCaption whose body is that object; with options absent it   *)
(* threw the insufficient-parameters error and made no request.            *)
(***************************************************************************)
C11_EditMessageCaptionSendsOptions ==
    call.op = "editMessageCaption" =>
        IF IsNullish(call.args.options)
        THEN requests = <<>> /\ outcome = Throw(InsufficientParameters("/editMessageCaption"))
        ELSE requests = <<[url |-> baseURI \o "/editMessageCaption",
                           method |-> "POST",
                           data |-> [type |-> "json", text |-> call.args.options],
                           contentType |-> "application/json; charset=utf-8"]>>

LimitedOperations == {"setChatTitle", "setChatDescription", "createNewStickerSet", "addStickerToSet"}

Limited ==
    IF call.op = "setChatTitle" THEN {<<"title", 255>>}
    ELSE IF call.op = "setChatDescription" THEN {<<"description", 255>>}
    ELSE {<<"name", 64>>, <<"title", 64>>}

C13_LengthLimits ==
    (call.op \in LimitedOperations /\ \A p \in Positional : ~IsNullish(call.args[p]))
        => IF \E l \in Limited : call.args[l[1]].v > l[2]
           THEN requests = <<>> /\ outcome = Throw(InsufficientParameters("/" \o call.op))
           ELSE Dispatched1

C13_Witness ==
    /\ call.op = "createNewStickerSet"
    /\ call.args.name = Str(64) /\ call.args.title = Str(64)
    /\ Dispatched1

(***************************************************************************)
(* C14, as claimed: setStickerPositionInSet with a sticker made one JSON    *)
(* POST with {sticker, position} for every integer position >= 0, and      *)
(* threw without a request for any other position.                         *)
(***************************************************************************)
C14_EveryIntegerFromZero ==
    (call.op = "setStickerPositionInSet" /\ ~IsNullish(call.args.sticker))
        => IF call.args.position.t \in {"number", "unsafe integer"} /\ call.args.position.v >= 0
           THEN Dispatched1
           ELSE requests = <<>> /\ outcome.kind = "throw"

(***************************************************************************)
(* C14, amended: setStickerPositionInSet with a sticker made one JSON POST  *)
(* with {sticker, position} for every safe integer position >= 0 (an       *)
(* integer up to 2^53 - 1), 0 included, and threw the                      *)
(* insufficient-parameters error without a request for any other position. *)
(***************************************************************************)
C14_EverySafeIntegerFromZero ==
    (call.op = "setStickerPositionInSet" /\ ~IsNullish(call.args.sticker))
        => IF call.args.position.t = "number" /\ call.args.position.v >= 0
           THEN /\ Dispatched1
                /\ requests[1].url = baseURI \o "/setStickerPositionInSet"
                /\ requests[1].data = [type |-> "json",
                                       text |-> [sticker |-> call.args.sticker,
                                                 position |-> call.args.position]]
           ELSE /\ requests = <<>>
                /\ outcome = Throw(InsufficientParameters("/setStickerPositionInSet"))

C14_Witness ==
    /\ call.op = "setStickerPositionInSet"
    /\ call.args.position = Num(0)
    /\ Dispatched1

(***************************************************************************)
(* C15, as claimed: every request of an operation that transmits a file is *)
(* multipart, every request of any other operation is JSON, and no call    *)
(* makes more than one request.                                            *)
(***************************************************************************)
C15_OnlyFileOperationsMultipart ==
    OperationCalled =>
        /\ Len(requests) <= 1
        /\ \A i \in DOMAIN requests :
            IF call.op \in MultipartOperations
            THEN requests[i].data.type = "multipart"
            ELSE requests[i].data.type \in {"json", "empty"}

(***************************************************************************)
(* C15, amended: no call makes more than one request; every request of an *)
(* operation that transmits a file is multipart, and every request of any  *)
(* other operation but setWebhook is JSON.  setWebhook is not among the     *)
(* operations that transmit a file and yet makes a multipart request.      *)
(***************************************************************************)
C15_AllButSetWebhook ==
    OperationCalled =>
        /\ Len(requests) <= 1
        /\ \A i \in DOMAIN requests :
            IF call.op = "setWebhook"
            THEN requests[i].data.type \in {"json", "empty", "multipart"}
            ELSE IF call.op \in MultipartOperations
            THEN requests[i].data.type = "multipart" /\ requests[i].contentType = "multipart/form-data"
            ELSE /\ requests[i].data.type \in {"json", "empty"}
                 /\ requests[i].contentType = "application/json; charset=utf-8"

C15_Witness ==
    /\ call.op = "uploadStickerFile"
    /\ Dispatched1
    /\ requests[1].data.type = "multipart"

(***************************************************************************)
(* C16: a call of an operation of the required-field table, with every     *)
(* required parameter present and within its limits and without options,   *)
(* made one request to the path named after the operation, carrying        *)
(* exactly the wire keys of the table, each with the value of its          *)
(* parameter.                                                              *)
(***************************************************************************)
TableOperations ==
    {"sendMessage", "sendPhoto", "forwardMessage", "sendLocation", "sendVenue", "sendContact",
     "answerInlineQuery", "setChatTitle", "createNewStickerSet", "setStickerPositionInSet"}

WithinLimits ==
    /\ call.op \in LimitedOperations => \A l \in Limited : call.args[l[1]].v <= l[2]
    /\ call.op = "setStickerPositionInSet"
        => call.args.position.t = "number" /\ call.args.position.v >= 0

C16_RequiredFieldTable ==
    (/\ call.op \in TableOperations
     /\ \A p \in Positional : ~IsNullish(call.args[p])
     /\ WithinLimits
     /\ ~HasOptions)
        => /\ Dispatched1
           /\ requests[1].url = baseURI \o "/" \o call.op
           /\ SentKeys = {WireKey[p] : p \in Positional}
           /\ \A p \in Positional : SentAs(WireKey[p], call.args[p])

C16_Witness ==
    /\ call.op = "forwardMessage" /\ ~HasOptions /\ Dispatched1
    /\ call.args.chatId = Str(3) /\ call.args.fromChatId = Str(5)
    /\ requests[1].data.text.chat_id = Str(3)
    /\ requests[1].data.text.from_chat_id = Str(5)

(***************************************************************************)
(* C17: a JSON request has the empty body exactly when the call supplied   *)
(* no payload, which is so for getMe, for getWebhookInfo and for           *)
(* getUpdates without options; getUpdates with options sends the whole     *)
(* options object, the offset included.                                    *)
(***************************************************************************)
C17_EmptyBodyOnlyWithoutPayload ==
    (OperationCalled /\ Dispatched1 /\ requests[1].data.type # "multipart")
        => /\ requests[1].data.type = "empty"
                <=> \/ call.op \in {"getMe", "getWebhookInfo"}
                    \/ call.op = "getUpdates" /\ IsNullish(call.args.options)
           /\ (call.op = "getUpdates" /\ ~IsNullish(call.args.options))
                => requests[1].data = [type |-> "json", text |-> call.args.options]

C17_Witness ==
    /\ call.op = "getUpdates" /\ Dispatched1
    /\ requests[1].data.type = "json"
    /\ requests[1].data.text.offset = Num(5)
    /\ requests[1].data.text.timeout = Num(0)

(***************************************************************************)
(* C18: a multipart request carries exactly one part for each field of the *)
(* payload, under the name of the field: for a MultipartStream a file part *)
(* with its display name, a TextPart when its stream is a text stream and  *)
(* a BinaryPart otherwise; for any other value a TextPart with the string  *)
(* form of the value.                                                      *)
(***************************************************************************)
C18_OnePartPerField ==
    (OperationCalled /\ Dispatched1 /\ requests[1].data.type = "multipart")
        => /\ SentKeys = {WireKey[p] : p \in Positional} \cup OptionKeys
           /\ \A p \in Positional : requests[1].data.parts[WireKey[p]] = PartFor(call.args[p])
           /\ \A k \in OptionKeys \ {WireKey[p] : p \in Positional} :
                requests[1].data.parts[k] = PartFor(call.args.options[k])

C18_Witness ==
    /\ call.op = "sendDocument" /\ Dispatched1
    /\ call.args.document.t = "MultipartStream"
    /\ streams[descriptors[call.args.document.v].stream].text
    /\ requests[1].data.parts.document.part = "TextPart"
    /\ requests[1].data.parts.document.filename = Str(8)
    /\ requests[1].data.parts.chat_id = [part |-> "TextPart", text |-> call.args.chatId]

StoredOffset ==
    IF offsetTxt.exists /\ parseInt(offsetTxt.text) # NaN THEN parseInt(offsetTxt.text).v ELSE 0

\* a step of a run of the test keeps the rules of the offset: the file is
\* written only after a batch that is not empty, with the highest id plus 1,
\* which is above every id of the batch, and the offset never goes down
OffsetRules ==
    /\ offsetTxt' # offsetTxt
        => /\ pc = "write" /\ batch # <<>>
           /\ offsetTxt' = [exists |-> TRUE, text |-> NumberToString(getHighestUpdateId(batch) + 1)]
    /\ (pc = "write" /\ batch # <<>>)
        => /\ StoredOffset' = getHighestUpdateId(batch) + 1
           /\ \A id \in Ids(batch) : id < StoredOffset'
    /\ (pc = "write" /\ batch = <<>>) => offsetTxt' = offsetTxt
    /\ StoredOffset' >= StoredOffset

(***************************************************************************)
(* C21, as claimed: with a server that returns no update below the offset  *)
(* of the poll, the runs keep the rules of the offset, and no poll returns *)
(* an update that an earlier poll has returned.                            *)
(***************************************************************************)
C21_NoUpdateTwice ==
    [][/\ OffsetRules
       /\ pc = "getUpdates" => Ids(batch') \cap delivered = {}]_vars

(***************************************************************************)
(* C21, amended: with a server that returns no update below the offset of  *)
(* the poll, the runs keep the rules of the offset, and no poll returns an *)
(* update of a batch after which the offset was written.  The updates of a *)
(* batch whose handling threw, so that the offset was not written, can be  *)
(* returned again by the next poll.                                        *)
(***************************************************************************)
C21_NoConfirmedUpdateTwice ==
    [][/\ OffsetRules
       /\ pc = "getUpdates" => Ids(batch') \cap confirmed = {}]_vars

C21_Witness ==
    /\ pc = "forEach"
    /\ confirmed = {0, 1}
    /\ offset = 2
    /\ Ids(batch) = {3, 2}
    /\ delivered = {0, 1, 2, 3}

(***************************************************************************)
(* C22: getChatIdFromMessage gave what reading envelope.message.chat.id     *)
(* gives when the envelope has a message, also when it has a chat as well; *)
(* otherwise what reading envelope.chat.id gives when it has a chat;       *)
(* otherwise null.  An envelope has a property when reading it does not    *)
(* give undefined.                                                         *)
(***************************************************************************)
Has(obj, key) == key \in DOMAIN obj /\ obj[key] # Undefined

C22_MessageBeforeChat ==
    call.op = "utils.getChatIdFromMessage" =>
        outcome = IF Has(call.args.envelope, "message")
                  THEN Read(call.args.envelope.message, <<"chat", "id">>)
                  ELSE IF Has(call.args.envelope, "chat")
                  THEN Read(call.args.envelope.chat, <<"id">>)
                  ELSE Return(Null)

C22_Witness ==
    /\ call.op = "utils.getChatIdFromMessage"
    /\ call.args.envelope = [message |-> [chat |-> [id |-> Num(42)]], chat |-> [id |-> Num(9)]]
    /\ outcome = Return(Num(42))

(***************************************************************************)
(* C23: getChatIdFromMessage never threw: for every envelope, also one     *)
(* whose message is null or has no chat, or whose chat is null, it         *)
(* returned a chat id or null.                                             *)
(***************************************************************************)
C23_ChatIdOrNullNeverThrows ==
    call.op = "utils.getChatIdFromMessage" =>
        /\ outcome.kind = "return"
        /\ outcome.value \in {Null, Num(42), Num(9)}

(***************************************************************************)
(* C24: isInlineQuery was true exactly when the update has an inline_query *)
(* that is not absent; when it was true, getInlineQuery of the update is   *)
(* an object whose properties can be read, and when it was false,          *)
(* getInlineQuery of the update is undefined.                              *)
(***************************************************************************)
C24_InlineQueryIsReadable ==
    call.op = "utils.isInlineQuery" =>
        /\ outcome = Return(IF Has(call.args.update, "inline_query") THEN True ELSE False)
        /\ outcome = Return(True)
            => /\ ~IsPrimitive(getInlineQuery(call.args.update))
               /\ Read(getInlineQuery(call.args.update), <<"id">>).kind = "return"
        /\ outcome = Return(False) => getInlineQuery(call.args.update) = Undefined

(***************************************************************************)
(* C25: a call of an operation made at most one request: one when its      *)
(* required parameters were present and within their limits, none when     *)
(* not; and when the request failed (request() threw, the status was not   *)
(* 200, the body was no JSON, the envelope was not ok) the call threw.     *)
(***************************************************************************)
\* setWebhook has nothing that it validates
ValidationPasses ==
    \/ call.op = "setWebhook"
    \/ /\ \A k \in RequiredParameters : ~IsNullish(call.args[k])
       /\ WithinLimits

C25_OneRequestWhenValid ==
    OperationCalled =>
        /\ Len(requests) <= 1
        /\ ValidationPasses <=> Len(requests) = 1
        /\ (Len(requests) = 1 /\ ~(GotStatus(200) /\ GotOkTrue)) => outcome.kind = "throw"

(***************************************************************************)
(* C26: whatever calls were made before on the client, every request of a  *)
(* call goes to "https://api.telegram.org/bot" + token + "/" + the name of *)
(* the operation, and the call ends as its own arguments and its own       *)
(* exchange have it: as the unwrapping of the exchange when a request was  *)
(* made, with the error of the operation when none was made.               *)
(***************************************************************************)
C26_CallsAreIndependent ==
    OperationCalled =>
        /\ \A i \in DOMAIN requests :
            requests[i].url = "https://api.telegram.org/bot" \o TOKEN \o "/" \o call.op
        /\ Len(requests) = 1 => outcome = Dispatched(exchange)
        /\ requests = <<>> =>
            outcome \in {Throw(InsufficientParameters("/" \o call.op)),
                         Throw([type |-> "ReferenceError", name |-> call.op])}

C26_Witness ==
    /\ Len(descriptors) = 2
    /\ \A i \in DOMAIN descriptors : streams[descriptors[i].stream].closed
    /\ call.op = "sendMessage" /\ Dispatched1
    /\ requests[1].url = "https://api.telegram.org/botTOKEN/sendMessage"
    /\ GotStatus(200) /\ GotOkTrue
    /\ outcome = Return(EnvelopeField("result"))

StreamsIn(reqs) ==
    {s \in DOMAIN streams :
        \E i \in DOMAIN reqs :
            /\ reqs[i].data.type = "multipart"
            /\ \E n \in DOMAIN reqs[i].data.parts :
                /\ "stream" \in DOMAIN reqs[i].data.parts[n]
                /\ reqs[i].data.parts[n].stream = s}

C28_DescriptorIsSingleUse ==
    [][/\ \A s \in DOMAIN streams : streams[s].closed => streams'[s].closed
       /\ \A s \in StreamsIn(requests') : streams'[s].closed
       /\ \A i, j \in DOMAIN closeLog' : i # j => closeLog'[i] # closeLog'[j]
       /\ \A i \in DOMAIN closeLog' : ~streams[closeLog'[i]].closed
       /\ {closeLog'[i] : i \in DOMAIN closeLog'} = {s \in StreamsIn(requests') : ~streams[s].closed}]_vars

C28_Witness ==
    /\ call.op = "sendDocument" /\ Dispatched1
    /\ call.args.document = MS(1)
    /\ streams[descriptors[1].stream] = [closed |-> TRUE, text |-> FALSE, origin |-> "path"]
    /\ StreamsIn(requests) = {descriptors[1].stream}
    /\ closeLog = <<>>

(***************************************************************************)
(* C29: a call that hands a dispatch helper a payload that is not null and *)
(* not an object, as getUpdates does with options that are a string, threw *)
(* the invalid-payload error and made no request.                          *)
(***************************************************************************)
C29_NonObjectPayloadRejected ==
    (call.op = "getUpdates" /\ IsPrimitive(call.args.options) /\ ~IsNullish(call.args.options))
        => /\ requests = <<>>
           /\ outcome = Throw([type |-> "InvalidPayload"])

(***************************************************************************)
(* C30: answerInlineQuery with an inline query id and with results that    *)
(* are not null threw the insufficient-parameters error and made no        *)
(* request when the results were no array, and made one request with       *)
(* {inline_query_id, results} when they were an array.                     *)
(***************************************************************************)
C30_ResultsMustBeArray ==
    (/\ call.op = "answerInlineQuery"
     /\ ~IsNullish(call.args.inlineQueryId)
     /\ ~IsNullish(call.args.results))
        => IF call.args.results.t = "array"
           THEN /\ Dispatched1
                /\ SentAs("inline_query_id", call.args.inlineQueryId)
                /\ SentAs("results", call.args.results)
           ELSE /\ requests = <<>>
                /\ outcome = Throw(InsufficientParameters("/answerInlineQuery"))

====
